---- MODULE Spec2Model ----
(***************************************************************************)
(* git-version-bumper (src/main.go): App.Run bumps a release.  It parses   *)
(* the version, opens the repository, looks the tag up, rewrites           *)
(* CHANGELOG.md through the regular expression re, stages the file,        *)
(* commits and creates an annotated tag.                                   *)
(*                                                                         *)
(* Text is modelled byte by byte: a string is a sequence of one-character  *)
(* strings, so that strings.Split, strconv.Atoi, fmt.Sprintf, the regular  *)
(* expression and regexp's template expansion are computed as the Go       *)
(* functions compute them.                                                 *)
(***************************************************************************)
EXTENDS Integers, Sequences, FiniteSets, TLC

VARIABLES
    Version,    \* App.Version, the -version flag
    Message,    \* App.Message, the -message flag
    cwd,        \* the process's working directory
    fs,         \* the file changelogFilename of each directory: [exists, data]
    index,      \* CHANGELOG.md in the repository's index: [exists, data]
    dirty,      \* other tracked files hold uncommitted modifications
    commits,    \* the repository's commit objects; a hash is a position
    head,       \* the commit HEAD points at
    tags,       \* the repository's tag references
    pc,         \* the statement of Run that executes next
    version,    \* Run's local version: ParseVersion's result
    changelog,  \* Run's local changelog
    commit,     \* Run's local commit, the hash w.Commit returned
    err,        \* the error Run returned
    calls,      \* the calls this run has made, with their outcome
    runs,       \* invocations of the tool so far
    pre,        \* the repository and the files when this run started
    prev,       \* the previous run: its version string and outcome
    document,   \* insertEntry: the document
    origin,     \* insertEntry: the document before any update
    inserted,   \* insertEntry: the (version, message) pairs applied, oldest first
    budget      \* insertEntry: updates still to apply

runVars == <<Version, Message, cwd, fs, index, dirty, commits, head, tags, pc,
             version, changelog, commit, err, calls, runs, pre, prev>>

insVars == <<document, origin, inserted, budget>>

vars == <<runVars, insVars>>

----------------------------------------------------------------------------
(* Bounds of the model. *)

\* the longest -version string drawn
MaxVersionLen == 6

\* the longest document drawn for a single update
MaxDocLen == 5

\* updates applied in a row to the default changelog
MaxInserts == 3

\* invocations of the tool in one behaviour
MaxRuns == 2

----------------------------------------------------------------------------
(* Characters. *)

NL == "\n"

Digits == {"0", "1", "2", "3", "4", "5", "6", "7", "8", "9"}

Letters == {"a", "b", "c", "d", "e", "f", "g", "h", "i", "j", "k", "l", "m", "n", "o", "p", "q", "r", "s", "t", "u", "v", "w", "x", "y", "z",
            "A", "B", "C", "D", "E", "F", "G", "H", "I", "J", "K", "L", "M", "N", "O", "P", "Q", "R", "S", "T", "U", "V", "W", "X", "Y", "Z"}

\* Perl class \s of Go's regexp syntax: [\t\n\f\r ]
WhiteSpace == {"\t", "\n", "\f", "\r", " "}

DigitVal(c) ==
    CASE c = "0" -> 0 [] c = "1" -> 1 [] c = "2" -> 2 [] c = "3" -> 3
      [] c = "4" -> 4 [] c = "5" -> 5 [] c = "6" -> 6 [] c = "7" -> 7
      [] c = "8" -> 8 [] c = "9" -> 9

DigitChar(d) ==
    CASE d = 0 -> "0" [] d = 1 -> "1" [] d = 2 -> "2" [] d = 3 -> "3"
      [] d = 4 -> "4" [] d = 5 -> "5" [] d = 6 -> "6" [] d = 7 -> "7"
      [] d = 8 -> "8" [] d = 9 -> "9"

\* all strings over alphabet of length at most n
StringsUpTo(alphabet, n) == UNION {[1..k -> alphabet] : k \in 0..n}

\* s[from..] as Go's s[from-1:]
Drop(s, k) == SubSeq(s, k + 1, Len(s))

RECURSIVE Concat(_)
Concat(ss) == IF ss = <<>> THEN <<>> ELSE Head(ss) \o Concat(Tail(ss))

----------------------------------------------------------------------------
(* ParseVersion and Version.String, src/main.go:155-185. *)

\* strings.Split(s, "."): the position of the first "." of s, 0 when none
RECURSIVE IndexDot(_, _)
IndexDot(s, i) ==
    IF i > Len(s) THEN 0
    ELSE IF s[i] = "." THEN i ELSE IndexDot(s, i + 1)

RECURSIVE Split(_)
Split(s) ==
    LET d == IndexDot(s, 1)
    IN  IF d = 0 THEN <<s>>
        ELSE <<SubSeq(s, 1, d - 1)>> \o Split(Drop(s, d))

\* the loop of strconv.Atoi over the digits: n = n*10 + int(ch)
RECURSIVE AtoiDigits(_, _)
AtoiDigits(s, n) ==
    IF s = <<>> THEN [ok |-> TRUE, n |-> n]
    ELSE IF Head(s) \notin Digits THEN [ok |-> FALSE, n |-> 0]
    ELSE AtoiDigits(Tail(s), n * 10 + DigitVal(Head(s)))

\* strconv.Atoi: an optional sign, then at least one digit, all digits
Atoi(s) ==
    IF s = <<>> THEN [ok |-> FALSE, n |-> 0]
    ELSE LET signed == Head(s) \in {"-", "+"}
             body == IF signed THEN Tail(s) ELSE s
             r == AtoiDigits(body, 0)
         IN  IF body = <<>> \/ ~r.ok THEN [ok |-> FALSE, n |-> 0]
             ELSE [ok |-> TRUE, n |-> IF Head(s) = "-" THEN 0 - r.n ELSE r.n]

\* a nil *Version
nil == [nil |-> TRUE]

\* len(parts) != 3 weakened to len(parts) < 3
ParseVersionAtLeast3(versionNumber) ==
    LET parts == Split(versionNumber)
    IN  IF Len(parts) < 3
        THEN [version |-> nil, err |-> "expect version in format 1.2.3"]
        ELSE LET major == Atoi(parts[1])
                 minor == Atoi(parts[2])
                 patch == Atoi(parts[3])
             IN  IF ~major.ok \/ ~minor.ok \/ ~patch.ok
                 THEN [version |-> nil, err |-> "strconv.Atoi: invalid syntax"]
                 ELSE [version |-> [Major |-> major.n, Minor |-> minor.n,
                                    Patch |-> patch.n],
                       err |-> ""]

\* ParseVersion returns (*Version, error); err "" is the nil error
ParseVersion(versionNumber) ==
    LET parts == Split(versionNumber)
    IN  IF Len(parts) # 3
        THEN [version |-> nil, err |-> "expect version in format 1.2.3"]
        ELSE LET major == Atoi(parts[1])
                 minor == Atoi(parts[2])
                 patch == Atoi(parts[3])
             IN  IF ~major.ok \/ ~minor.ok \/ ~patch.ok
                 THEN [version |-> nil, err |-> "strconv.Atoi: invalid syntax"]
                 ELSE [version |-> [Major |-> major.n, Minor |-> minor.n,
                                    Patch |-> patch.n],
                       err |-> ""]

\* the decimal digits of n >= 0
RECURSIVE FormatNat(_)
FormatNat(n) ==
    IF n < 10 THEN <<DigitChar(n)>>
    ELSE FormatNat(n \div 10) \o <<DigitChar(n % 10)>>

\* fmt's %d
FormatInt(n) == IF n < 0 THEN <<"-">> \o FormatNat(0 - n) ELSE FormatNat(n)

\* Version.String: fmt.Sprintf("%d.%d.%d", v.Major, v.Minor, v.Patch)
String(v) ==
    FormatInt(v.Major) \o <<".">> \o FormatInt(v.Minor) \o <<".">> \o FormatInt(v.Patch)

----------------------------------------------------------------------------
(* The changelog update, src/main.go:117 and 187-204. *)

defaultChangelogLines ==
    << <<"#", " ", "C", "h", "a", "n", "g", "e", "l", "o", "g">>,
       <<>>,
       <<"A", "l", "l", " ", "n", "o", "t", "a", "b", "l", "e", " ", "c", "h", "a", "n", "g", "e", "s", " ", "t", "o", " ", "t", "h", "i", "s", " ", "p", "r", "o", "j", "e", "c", "t", " ", "w", "i", "l", "l", " ", "b", "e", " ", "d", "o", "c", "u", "m", "e", "n", "t", "e", "d", " ", "i", "n", " ", "t", "h", "i", "s", " ", "f", "i", "l", "e", ".">>,
       <<>>,
       <<"P", "l", "e", "a", "s", "e", " ", "c", "h", "o", "o", "s", "e", " ", "v", "e", "r", "s", "i", "o", "n", "s", " ", "b", "y", " ", "[", "S", "e", "m", "a", "n", "t", "i", "c", " ", "V", "e", "r", "s", "i", "o", "n", "i", "n", "g", "]", "(", "h", "t", "t", "p", ":", "/", "/", "s", "e", "m", "v", "e", "r", ".", "o", "r", "g", "/", ")", ".">>,
       <<>>,
       <<"*", " ", "M", "A", "J", "O", "R", " ", "v", "e", "r", "s", "i", "o", "n", " ", "w", "h", "e", "n", " ", "y", "o", "u", " ", "m", "a", "k", "e", " ", "i", "n", "c", "o", "m", "p", "a", "t", "i", "b", "l", "e", " ", "A", "P", "I", " ", "c", "h", "a", "n", "g", "e", "s", ",">>,
       <<"*", " ", "M", "I", "N", "O", "R", " ", "v", "e", "r", "s", "i", "o", "n", " ", "w", "h", "e", "n", " ", "y", "o", "u", " ", "a", "d", "d", " ", "f", "u", "n", "c", "t", "i", "o", "n", "a", "l", "i", "t", "y", " ", "i", "n", " ", "a", " ", "b", "a", "c", "k", "w", "a", "r", "d", "s", "-", "c", "o", "m", "p", "a", "t", "i", "b", "l", "e", " ", "m", "a", "n", "n", "e", "r", ",", " ", "a", "n", "d">>,
       <<"*", " ", "P", "A", "T", "C", "H", " ", "v", "e", "r", "s", "i", "o", "n", " ", "w", "h", "e", "n", " ", "y", "o", "u", " ", "m", "a", "k", "e", " ", "b", "a", "c", "k", "w", "a", "r", "d", "s", "-", "c", "o", "m", "p", "a", "t", "i", "b", "l", "e", " ", "b", "u", "g", " ", "f", "i", "x", "e", "s", ".">>,
       <<>>,
       <<"#", "#", " ", "1", ".", "0", ".", "0">>,
       <<>>,
       <<"-", " ", "I", "n", "i", "t", "i", "a", "l", " ", "V", "e", "r", "s", "i", "o", "n">> >>

\* the raw string literal: every line of it ends with a newline
defaultChangelog ==
    Concat([i \in 1..Len(defaultChangelogLines) |-> defaultChangelogLines[i] \o <<NL>>])

\* \n## at position i of doc, whatever follows it
SectionAtAnyHeading(doc, i) ==
    /\ i + 2 <= Len(doc)
    /\ doc[i] = NL
    /\ doc[i + 1] = "#"
    /\ doc[i + 2] = "#"

\* \n##\s at position i of doc
SectionAt(doc, i) ==
    /\ i + 3 <= Len(doc)
    /\ doc[i] = NL
    /\ doc[i + 1] = "#"
    /\ doc[i + 2] = "#"
    /\ doc[i + 3] \in WhiteSpace

\* re = (?s)^(.*?)(\n##\s.*)$ : the whole text matches when \n##\s occurs in
\* it; the lazy (.*?) ends at the first occurrence, (.*) runs to the end
reMatch(doc) ==
    LET at == {i \in 1..Len(doc) : SectionAt(doc, i)}
    IN  IF at = {} THEN [matched |-> FALSE, groups |-> <<>>]
        ELSE LET i == CHOOSE j \in at : \A k \in at : j <= k
             IN  [matched |-> TRUE,
                  groups |-> <<doc, SubSeq(doc, 1, i - 1), Drop(doc, i - 1)>>]

IsNameChar(c) == c \in Letters \/ c \in Digits \/ c = "_"

\* regexp's extract: the end of the longest run of letters, digits and _
RECURSIVE NameEnd(_, _)
NameEnd(str, i) ==
    IF i < Len(str) /\ IsNameChar(str[i + 1]) THEN NameEnd(str, i + 1) ELSE i

\* regexp's extract: the number a name denotes, -1 when it is no number
RECURSIVE NameNum(_, _, _)
NameNum(name, i, num) ==
    IF i > Len(name) THEN num
    ELSE IF name[i] \notin Digits \/ num >= 100000000 THEN -1
    ELSE NameNum(name, i + 1, num * 10 + DigitVal(name[i]))

\* regexp's extract(str): the name after a "$", bare or in braces
extract(str) ==
    LET none == [ok |-> FALSE, num |-> -1, rest |-> str]
    IN  IF str = <<>> THEN none
        ELSE LET brace == Head(str) = "{"
                 s == IF brace THEN Tail(str) ELSE str
                 i == NameEnd(s, 0)
                 name == SubSeq(s, 1, i)
             IN  IF i = 0 THEN none
                 ELSE IF brace /\ (i >= Len(s) \/ s[i + 1] # "}") THEN none
                 ELSE [ok |-> TRUE,
                       num |-> IF name[1] = "0" /\ Len(name) > 1 THEN -1
                               ELSE NameNum(name, 1, 0),
                       rest |-> Drop(s, IF brace THEN i + 1 ELSE i)]

RECURSIVE IndexDollar(_, _)
IndexDollar(s, i) ==
    IF i > Len(s) THEN 0
    ELSE IF s[i] = "$" THEN i ELSE IndexDollar(s, i + 1)

\* Regexp.expand: $$ is a dollar, $name and ${name} a submatch; re names no
\* group, so a name that is no number in range expands to nothing
RECURSIVE expand(_, _)
expand(template, groups) ==
    LET d == IndexDollar(template, 1)
    IN  IF d = 0 THEN template
        ELSE LET before == SubSeq(template, 1, d - 1)
                 after == Drop(template, d)
                 e == extract(after)
             IN  IF after # <<>> /\ Head(after) = "$"
                 THEN before \o <<"$">> \o expand(Tail(after), groups)
                 ELSE IF ~e.ok
                 THEN before \o <<"$">> \o expand(after, groups)
                 ELSE before
                      \o (IF e.num >= 0 /\ e.num < Len(groups)
                          THEN groups[e.num + 1] ELSE <<>>)
                      \o expand(e.rest, groups)

\* Regexp.ReplaceAll: re matches the whole text or nothing
ReplaceAll(src, repl) ==
    LET m == reMatch(src)
    IN  IF m.matched THEN expand(repl, m.groups) ELSE src

\* fmt.Sprintf("$1\n## %s\n\n- %s\n$2", version.String(), a.Message)
Replacement(v, message) ==
    <<"$", "1", NL, "#", "#", " ">> \o String(v)
        \o <<NL, NL, "-", " ">> \o message \o <<NL, "$", "2">>

\* line 117: changelog = re.ReplaceAll(changelog, ...)
insertEntry(doc, v, message) == ReplaceAll(doc, Replacement(v, message))

----------------------------------------------------------------------------
(* The repository, the files and the flags, src/main.go:30-46, 63-69. *)

\* App.Repo: the root of the repository the tool is pointed at
Repo == "repo"

\* a directory outside that repository
Elsewhere == "elsewhere"

Dirs == {Repo, Elsewhere}

\* App.AuthorName and App.AuthorEmail
AuthorName == "author"

AuthorEmail == "author@example.com"

Absent == [exists |-> FALSE, data |-> <<>>]

File(data) == [exists |-> TRUE, data |-> data]

\* plumbing.ZeroHash, the hash w.Commit returns with an early error
ZeroHash == 0

\* object.Signature{Name: a.AuthorName, Email: a.AuthorEmail}, lines 129-133
signature == [Name |-> AuthorName, Email |-> AuthorEmail]

envVars == <<fs, index, dirty, commits, head, tags>>

Snapshot ==
    [fs |-> fs, index |-> index, dirty |-> dirty, commits |-> commits,
     head |-> head, tags |-> tags]

\* -version values of the runs
RunVersions ==
    {<<"1", ".", "2", ".", "3">>, <<"1", ".", "0", ".", "0">>, <<"1", ".", "2">>}

\* -message values of the runs
RunMessages == {<<"f", "i", "x">>, <<"$", "5">>}

\* CHANGELOG.md of the repository before the first run: none, one without a
\* section, one with a section
InitialChangelogs ==
    {Absent,
     File(<<"T", NL>>),
     File(<<"T", NL, NL, "#", "#", " ", "0", ".", "1", ".", "0", NL, "-", " ", "b", NL>>)}

\* -version values ParseVersion is tried on
ParseInputs ==
    StringsUpTo({"0", "1", ".", "x", "-"}, MaxVersionLen)
        \cup {<<"1", ".", "2">>, <<"1", ".", "2", ".", "3", ".", "4">>,
              <<"1", ".", "x", ".", "3">>, <<"1", ".", ".", "3">>,
              <<"1", ".", "2", ".", "3">>, <<"+", "1", ".", "2", ".", "3">>}

----------------------------------------------------------------------------
(* App.Run, src/main.go:90-153, one action for each call it makes. *)

\* a return that restores the files the run found
ReturnRestoringFiles(e) ==
    /\ pc' = "failed"
    /\ err' = e
    /\ fs' = pre.fs
    /\ UNCHANGED <<index, dirty, commits, head, tags>>

\* return errors.Wrap(err, e): Run ends, nothing is undone
Return(e) ==
    /\ pc' = "failed"
    /\ err' = e
    /\ UNCHANGED envVars

Called(call, failed) == calls' = Append(calls, [call |-> call, err |-> failed])

\* a tag lookup that finds nothing
TagNeverFound(name) == FALSE

\* r.Tag(name) returns a nil error: the reference refs/tags/name exists
TagFound(name) == \E t \in tags : t.name = name

\* lines 91-94
RunParseVersion ==
    /\ pc = "ParseVersion"
    /\ LET r == ParseVersion(Version)
       IN  /\ version' = r.version
           /\ Called("ParseVersion", r.err # "")
           /\ IF r.err # "" THEN Return(r.err)
              ELSE pc' = "PlainOpen" /\ UNCHANGED <<err, envVars>>
    /\ UNCHANGED <<Version, Message, cwd, changelog, commit, runs, pre, prev, insVars>>

\* lines 96-99
RunPlainOpen ==
    /\ pc = "PlainOpen"
    /\ \E ok \in BOOLEAN :
        /\ Called("PlainOpen", ~ok)
        /\ IF ok THEN pc' = "Worktree" /\ UNCHANGED <<err, envVars>>
           ELSE Return("open git directory failed")
    /\ UNCHANGED <<Version, Message, cwd, version, changelog, commit, runs, pre,
                   prev, insVars>>

\* lines 101-104
RunWorktree ==
    /\ pc = "Worktree"
    /\ \E ok \in BOOLEAN :
        /\ Called("Worktree", ~ok)
        /\ IF ok THEN pc' = "Tag" /\ UNCHANGED <<err, envVars>>
           ELSE Return("get worktree failed")
    /\ UNCHANGED <<Version, Message, cwd, version, changelog, commit, runs, pre,
                   prev, insVars>>

\* lines 106-110
RunTag ==
    /\ pc = "Tag"
    /\ LET found == TagFound(String(version))
       IN  /\ Called("Tag", ~found)
           /\ IF found THEN Return("tag already exists")
              ELSE pc' = "WriteChangelog" /\ UNCHANGED <<err, envVars>>
    /\ UNCHANGED <<Version, Message, cwd, version, changelog, commit, runs, pre,
                   prev, insVars>>

\* lines 112-122: ioutil.ReadFile and ioutil.WriteFile resolve the relative
\* changelogFilename against the working directory of the process.  The read
\* fails when the file is missing (an existing file is taken to be readable)
\* and defaultChangelog stands in.  A failed write leaves the file as it was
\* (the open failed) or truncated (the write failed).
RunWriteChangelog ==
    /\ pc = "WriteChangelog"
    /\ \E writeOk, truncated \in BOOLEAN :
        LET file == fs[cwd]
            readErr == ~file.exists
            content == IF readErr THEN defaultChangelog ELSE file.data
            updated == insertEntry(content, version, Message)
        IN  /\ changelog' = updated
            /\ calls' = calls \o <<[call |-> "ReadFile", err |-> readErr],
                                   [call |-> "WriteFile", err |-> ~writeOk]>>
            /\ IF writeOk
               THEN /\ fs' = [fs EXCEPT ![cwd] = File(updated)]
                    /\ pc' = "Add"
                    /\ UNCHANGED err
               ELSE /\ fs' = IF truncated /\ file.exists
                             THEN [fs EXCEPT ![cwd] = File(<<>>)] ELSE fs
                    /\ pc' = "failed"
                    /\ err' = "write CHANGELOG.md failed"
    /\ UNCHANGED <<Version, Message, cwd, version, commit, runs, pre, prev,
                   index, dirty, commits, head, tags, insVars>>

\* lines 124-127: w.Add resolves changelogFilename against the root of the
\* worktree.  It stages the file, or its removal when the file is tracked
\* and gone, and fails for a path neither in the worktree nor in the index.
RunAdd ==
    /\ pc = "Add"
    /\ \E ok \in BOOLEAN :
        LET file == fs[Repo]
            failed == ~ok \/ (~file.exists /\ ~index.exists)
        IN  /\ Called("Add", failed)
            /\ IF failed THEN Return("add file failed")
               ELSE /\ index' = file
                    /\ pc' = "Commit"
                    /\ UNCHANGED <<err, fs, dirty, commits, head, tags>>
    /\ UNCHANGED <<Version, Message, cwd, version, changelog, commit, runs, pre,
                   prev, insVars>>

\* lines 134-137: w.Commit with All: true stages every modified or deleted
\* tracked file and commits the index.  It fails before the commit object is
\* stored ("early": ZeroHash) or after, when HEAD cannot be moved ("late":
\* the hash of the stored commit comes with the error).  Run never reads the
\* error: line 139 assigns err again.
RunCommit ==
    /\ pc = "Commit"
    /\ \E outcome \in {"ok", "early", "late"} :
        LET staged == IF index.exists THEN fs[Repo] ELSE index
            object == [changelog |-> staged, swept |-> dirty, message |-> Message,
                       author |-> signature, parent |-> head]
            hash == Len(commits) + 1
        IN  /\ Called("Commit", outcome # "ok")
            /\ IF outcome = "early"
               THEN commit' = ZeroHash /\ UNCHANGED <<index, dirty, commits, head>>
               ELSE /\ commit' = hash
                    /\ commits' = Append(commits, object)
                    /\ index' = staged
                    /\ IF outcome = "ok"
                       THEN head' = hash /\ dirty' = FALSE
                       ELSE UNCHANGED <<head, dirty>>
    /\ pc' = "CommitObject"
    /\ UNCHANGED <<Version, Message, cwd, version, changelog, err, runs, pre, prev,
                   fs, tags, insVars>>

\* lines 139-142
RunCommitObject ==
    /\ pc = "CommitObject"
    /\ \E ok \in BOOLEAN :
        LET found == ok /\ commit \in 1..Len(commits)
        IN  /\ Called("CommitObject", ~found)
            /\ IF found THEN pc' = "CreateTag" /\ UNCHANGED <<err, envVars>>
               ELSE Return("commit failed")
    /\ UNCHANGED <<Version, Message, cwd, version, changelog, commit, runs, pre,
                   prev, insVars>>

\* lines 144-152
RunCreateTag ==
    /\ pc = "CreateTag"
    /\ \E ok \in BOOLEAN :
        LET name == String(version)
            created == ok /\ ~TagFound(name)
        IN  /\ Called("CreateTag", ~created)
            /\ IF created
               THEN /\ tags' = tags \cup {[name |-> name, target |-> commit,
                                           tagger |-> signature, message |-> name]}
                    /\ pc' = "done"
                    /\ err' = ""
                    /\ UNCHANGED <<fs, index, dirty, commits, head>>
               ELSE Return("create tag failed")
    /\ UNCHANGED <<Version, Message, cwd, version, changelog, commit, runs, pre,
                   prev, insVars>>

\* main, lines 25-61: the tool is invoked again on the same repository, with
\* another -version or the same
Rerun ==
    /\ pc \in {"done", "failed"}
    /\ runs < MaxRuns
    /\ Version' \in RunVersions
    /\ pc' = "ParseVersion"
    /\ version' = nil
    /\ changelog' = <<>>
    /\ commit' = ZeroHash
    /\ err' = ""
    /\ calls' = <<>>
    /\ runs' = runs + 1
    /\ pre' = Snapshot
    /\ prev' = [ran |-> TRUE, ok |-> pc = "done",
                tag |-> IF version = nil THEN <<>> ELSE String(version)]
    /\ UNCHANGED <<Message, cwd, envVars, insVars>>

InsertIdle ==
    /\ document = <<>>
    /\ origin = <<>>
    /\ inserted = <<>>
    /\ budget = 0

\* a first invocation: the flags, the working directory and the repository
InitRun(versions, messages, dirs, changelogs, dirties, tagged) ==
    /\ Version \in versions
    /\ Message \in messages
    /\ cwd \in dirs
    /\ \E initial \in changelogs :
        /\ fs = [d \in Dirs |-> IF d = Repo THEN initial ELSE Absent]
        /\ index = initial
        /\ commits = <<[changelog |-> initial, swept |-> FALSE,
                        message |-> <<"i", "n", "i", "t">>,
                        author |-> signature, parent |-> ZeroHash]>>
    /\ head = 1
    /\ dirty \in dirties
    /\ tags \in {{[name |-> n, target |-> 1, tagger |-> signature, message |-> n] :
                    n \in ns} : ns \in tagged}
    /\ pc = "ParseVersion"
    /\ version = nil
    /\ changelog = <<>>
    /\ commit = ZeroHash
    /\ err = ""
    /\ calls = <<>>
    /\ runs = 1
    /\ pre = Snapshot
    /\ prev = [ran |-> FALSE, ok |-> FALSE, tag |-> <<>>]
    /\ InsertIdle

Init ==
    InitRun(RunVersions, RunMessages, Dirs, InitialChangelogs, BOOLEAN,
            {{}, {<<"1", ".", "2", ".", "3">>}})

RunStep ==
    \/ RunParseVersion
    \/ RunPlainOpen
    \/ RunWorktree
    \/ RunTag
    \/ RunWriteChangelog
    \/ RunAdd
    \/ RunCommit
    \/ RunCommitObject
    \/ RunCreateTag

Next == RunStep \/ Rerun

Spec == Init /\ [][Next]_vars

\* one run of the tool on every -version string of ParseInputs
InitParse ==
    InitRun(ParseInputs, {<<"f", "i", "x">>}, {Repo}, {Absent}, {FALSE}, {{}})

SpecParse == InitParse /\ [][RunStep]_vars

----------------------------------------------------------------------------
(* The changelog update on its own: line 117 applied to a document. *)

\* the versions and messages of the updates
InsVersions ==
    {[Major |-> 1, Minor |-> 2, Patch |-> 3], [Major |-> 2, Minor |-> 0, Patch |-> 0]}

InsMessages == {<<"m">>, <<"$", "2">>, <<"#", "#", " ", "m">>}

\* the characters of the documents drawn
DocChars == {NL, "#", " ", "\t", "a"}

\* no run of the tool is in progress
RunIdle ==
    /\ Version = <<>>
    /\ Message = <<>>
    /\ cwd = Repo
    /\ fs = [d \in Dirs |-> Absent]
    /\ index = Absent
    /\ dirty = FALSE
    /\ commits = <<>>
    /\ head = ZeroHash
    /\ tags = {}
    /\ pc = "idle"
    /\ version = nil
    /\ changelog = <<>>
    /\ commit = ZeroHash
    /\ err = ""
    /\ calls = <<>>
    /\ runs = 0
    /\ pre = Snapshot
    /\ prev = [ran |-> FALSE, ok |-> FALSE, tag |-> <<>>]

\* line 117 applied to the document
ApplyInsertEntry ==
    /\ budget > 0
    /\ \E v \in InsVersions, m \in InsMessages :
        /\ document' = insertEntry(document, v, m)
        /\ inserted' = Append(inserted, [version |-> v, message |-> m])
    /\ budget' = budget - 1
    /\ UNCHANGED <<origin, runVars>>

\* one update of every document of at most MaxDocLen characters
InitInsert ==
    /\ document \in StringsUpTo(DocChars, MaxDocLen)
    /\ origin = document
    /\ inserted = <<>>
    /\ budget = 1
    /\ RunIdle

SpecInsert == InitInsert /\ [][ApplyInsertEntry]_vars

\* MaxInserts updates in a row of the default changelog
InitSeq ==
    /\ document = defaultChangelog
    /\ origin = document
    /\ inserted = <<>>
    /\ budget = MaxInserts
    /\ RunIdle

SpecSeq == InitSeq /\ [][ApplyInsertEntry]_vars

----------------------------------------------------------------------------
(* What the claims speak of. *)

Ended == pc \in {"done", "failed"}

Erred(call) == \E i \in 1..Len(calls) : calls[i].call = call /\ calls[i].err

Succeeded(call) == \E i \in 1..Len(calls) : calls[i].call = call /\ ~calls[i].err

\* the tag of this run's version was in the repository when the run started
TaggedBefore == version # nil /\ \E t \in pre.tags : t.name = String(version)

IsPrefix(p, s) == Len(p) <= Len(s) /\ SubSeq(s, 1, Len(p)) = p

IsSuffix(p, s) == Len(p) <= Len(s) /\ SubSeq(s, Len(s) - Len(p) + 1, Len(s)) = p

Contains(s, sub) == \E p \in 0..(Len(s) - Len(sub)) : SubSeq(s, p + 1, p + Len(sub)) = sub

LineStart(doc, p) == p = 1 \/ (p > 1 /\ doc[p - 1] = NL)

\* a line of doc begins at p with "##" and a character of class
HeadingLineAt(doc, p, class) ==
    /\ LineStart(doc, p)
    /\ p + 2 <= Len(doc)
    /\ doc[p] = "#"
    /\ doc[p + 1] = "#"
    /\ doc[p + 2] \in class

HasHeadingLine(doc, class) == \E p \in 1..Len(doc) : HeadingLineAt(doc, p, class)

\* where the lines of doc that begin with "## " start
SectionStarts(doc) == {p \in 1..Len(doc) : HeadingLineAt(doc, p, {" "})}

\* the line of doc that begins with "## " at p, without "## " and the newline
SectionName(doc, p) ==
    LET end == CHOOSE q \in p..(Len(doc) + 1) :
                   /\ q > Len(doc) \/ doc[q] = NL
                   /\ \A r \in p..(q - 1) : doc[r] # NL
    IN  SubSeq(doc, p + 3, end - 1)

\* the names of the sections of doc, in the order of the document
Headings(doc) ==
    LET starts == SectionStarts(doc)
    IN  [i \in 1..Cardinality(starts) |->
            SectionName(doc, CHOOSE p \in starts :
                                 Cardinality({q \in starts : q < p}) = i - 1)]

\* the number of lines "## name" of doc
CountSections(doc, name) ==
    Cardinality({p \in SectionStarts(doc) : SectionName(doc, p) = name})

\* "\n## " version "\n\n- " message "\n"
Entry(v, message) ==
    <<NL, "#", "#", " ">> \o String(v) \o <<NL, NL, "-", " ">> \o message \o <<NL>>

Reverse(s) == [i \in 1..Len(s) |-> s[Len(s) + 1 - i]]

----------------------------------------------------------------------------
(* The claims. *)

\* C1: a run that starts from a dirty working tree fails, and it leaves
\* CHANGELOG.md, the commits and the tags as it found them.
C1_DirtyTreeAborts ==
    pre.dirty =>
        /\ pc # "done"
        /\ fs = pre.fs
        /\ commits = pre.commits
        /\ tags = pre.tags

C3_CleanRunReleases ==
    /\ \A t \in tags : t.target \in 1..Len(commits)
    /\ ( /\ Ended
         /\ version # nil
         /\ ~pre.dirty
         /\ ~TaggedBefore
         /\ ~pre.fs[Repo].exists
         /\ \A i \in 1..Len(calls) :
                calls[i].err => calls[i].call \in {"Tag", "ReadFile"} )
       => /\ pc = "done"
          /\ fs[Repo].exists
          /\ Contains(fs[Repo].data, Entry(version, Message))
          /\ Len(commits) = Len(pre.commits) + 1
          /\ commits[Len(commits)].changelog = fs[Repo]
          /\ \E t \in tags \ pre.tags :
                /\ t.name = String(version)
                /\ t.message = String(version)
                /\ t.target = Len(commits)
                /\ t.tagger = commits[Len(commits)].author

\* the steps C4 lists
FailFastSteps ==
    {"ParseVersion", "PlainOpen", "Worktree", "WriteFile", "Add", "Commit",
     "CommitObject", "CreateTag"}

\* C4: when a step of Run fails, no later step is executed and Run returns
\* an error; after a failed commit no tag is created.
C4_FailFast ==
    /\ \A i \in 1..Len(calls) :
        (calls[i].err /\ calls[i].call \in FailFastSteps) =>
            /\ i = Len(calls)
            /\ Ended => pc = "failed"
    /\ Erred("Commit") => tags = pre.tags

\* C5: nothing is rolled back.  From the successful write on, through every
\* later failure, the changelog file holds the content Run wrote; a commit
\* Run created stays in the repository, after the commits that were there.
C5_NoRollback ==
    /\ Succeeded("WriteFile") => fs[cwd] = File(changelog)
    /\ commit # ZeroHash =>
        /\ commits = Append(pre.commits, commits[commit])
        /\ commits[commit].message = Message

C5_TagFailedAfterCommit ==
    /\ pc = "failed"
    /\ err = "create tag failed"
    /\ fs[cwd] # pre.fs[cwd]
    /\ fs[cwd] = File(changelog)
    /\ Len(commits) = Len(pre.commits) + 1

\* C10: the changelog Run rewrites and stages is CHANGELOG.md in the root of
\* the repository, and no file outside the repository is created or
\* modified.
C10_ChangelogOfTheRepository ==
    /\ \A d \in Dirs \ {Repo} : fs[d] = pre.fs[d]
    /\ Succeeded("WriteFile") => fs[Repo] = File(changelog)
    /\ Succeeded("Add") => index = File(changelog)

\* the positions of the dots of s
Dots(s) == {i \in 1..Len(s) : s[i] = "."}

\* p is a base-10 integer: an optional sign, then digits, at least one
IsInteger(p) ==
    LET body == IF p # <<>> /\ p[1] \in {"+", "-"} THEN Tail(p) ELSE p
    IN  body # <<>> /\ \A i \in 1..Len(body) : body[i] \in Digits

\* the three parts of a string with exactly two dots
PartsOf(s) ==
    LET i == CHOOSE d \in Dots(s) : \A e \in Dots(s) : d <= e
        j == CHOOSE d \in Dots(s) : \A e \in Dots(s) : e <= d
    IN  <<SubSeq(s, 1, i - 1), SubSeq(s, i + 1, j - 1), SubSeq(s, j + 1, Len(s))>>

\* s splits on "." into exactly three parts, each a base-10 integer
ThreeIntegers(s) ==
    /\ Cardinality(Dots(s)) = 2
    /\ \A k \in 1..3 : IsInteger(PartsOf(s)[k])

\* the integer p in its shortest writing: no "+", no leading zero, no "-0"
Shortest(p) ==
    LET body == IF p[1] \in {"+", "-"} THEN Tail(p) ELSE p
        nonzero == {i \in 1..Len(body) : body[i] # "0"}
        from == IF nonzero = {} THEN Len(body)
                ELSE CHOOSE i \in nonzero : \A k \in nonzero : i <= k
        digits == Drop(body, from - 1)
    IN  IF p[1] = "-" /\ nonzero # {} THEN <<"-">> \o digits ELSE digits

SplitAtFirstSection(doc, newline) ==
    LET p == CHOOSE q \in SectionStarts(doc) : \A r \in SectionStarts(doc) : q <= r
        cut == IF p - 1 - newline < 0 THEN 0 ELSE p - 1 - newline
    IN  [prefix |-> SubSeq(doc, 1, cut), remainder |-> Drop(doc, cut)]

InsertedAt(doc, newline, e) ==
    SplitAtFirstSection(doc, newline).prefix
        \o <<NL, "#", "#", " ">> \o String(e.version) \o <<NL, NL, "-", " ">>
        \o e.message \o <<NL>>
        \o SplitAtFirstSection(doc, newline).remainder

\* C6: for a document with a line that begins with "## ", the update gives
\* prefix "\n## " version "\n\n- " message "\n" remainder, split at the first
\* such line, whatever the message and also when that line is the first.
C6_InsertBeforeFirstSection ==
    (inserted # <<>> /\ SectionStarts(origin) # {}) =>
        \/ document = InsertedAt(origin, 0, inserted[1])
        \/ document = InsertedAt(origin, 1, inserted[1])

preamble == Concat([i \in 1..9 |-> defaultChangelogLines[i] \o <<NL>>])

firstSection == Drop(defaultChangelog, Len(preamble))

\* C8: after any updates of the default changelog the sections stand in the
\* reverse order of their insertion, before the section 1.0.0, and the
\* preamble and the section 1.0.0 are those of the template.
C8_NewestFirst ==
    /\ Headings(document) =
           Reverse([i \in 1..Len(inserted) |-> String(inserted[i].version)])
               \o <<<<"1", ".", "0", ".", "0">>>>
    /\ IsPrefix(preamble, document)
    /\ IsSuffix(firstSection, document)

----------------------------------------------------------------------------
(* How far the statements the code breaks do hold. *)

NoDollar(message) == \A i \in 1..Len(message) : message[i] # "$"

\* C3 holds of the runs whose message has no "$"
CleanRunReleasesPlainMessage == NoDollar(Message) => C3_CleanRunReleases

\* C6 holds, the boundary newline counted to the remainder, when the message
\* has no "$", the first line is no heading and no line "##" with a tab or
\* a newline stands before the first line "## "
InsertBeforeFirstSectionPlain ==
    ( /\ inserted # <<>>
      /\ SectionStarts(origin) # {}
      /\ NoDollar(inserted[1].message)
      /\ ~HeadingLineAt(origin, 1, WhiteSpace)
      /\ \A p \in 1..Len(origin) :
            HeadingLineAt(origin, p, WhiteSpace) =>
                \E q \in SectionStarts(origin) : q <= p )
    => document = InsertedAt(origin, 1, inserted[1])

\* C8 holds of the updates whose messages have no "$"
NewestFirstPlainMessages ==
    (\A i \in 1..Len(inserted) : NoDollar(inserted[i].message)) => C8_NewestFirst

\* C10 holds of the runs started in the root of the repository
ChangelogOfTheRepositoryAtRoot == cwd = Repo => C10_ChangelogOfTheRepository

====
